---- MODULE Spec2Model ----
(***************************************************************************)
(* Model of the Agent executor of electron/main/ai/agent.ts: the           *)
(* function-calling loop in buffered (execute) and streaming               *)
(* (executeStream) mode, handleToolCalls, and the tool dispatcher it       *)
(* awaits.  One action is one synchronous segment of the JavaScript code   *)
(* between two awaits.                                                     *)
(***************************************************************************)
EXTENDS Integers, Sequences, FiniteSets, TLC

\* ------------------------------------------------------------------ bounds
MaxRoundsCfg == 2      \* config.maxToolRounds ranges over 0..MaxRoundsCfg
MaxBatch == 2          \* tool calls carried by one model response
MaxChunks == 2         \* chunks the model streams deliver to one run, in total
ExtraCalls == 1        \* model calls allowed beyond maxToolRounds + 1
MaxToolCalls == 2      \* tool calls the model requests in one run, in total
NumRuns == 2           \* run slots of the concurrent specification

\* --------------------------------------------------------------- constants
DefaultMaxToolRounds == 5

AllRuns == 1..NumRuns

\* ------------------------------------------------------------ value shapes
\* An absent (undefined) value of each optional type.
NoToolCalls == [defined |-> FALSE, val |-> <<>>]
SomeToolCalls(tcs) == [defined |-> TRUE, val |-> tcs]
\* A time in seconds since the epoch, written as whole days and seconds of
\* the day (TLC integers are 32 bits wide).
Ts(day, sec) == [day |-> day, sec |-> sec]
NoTimeFilter == [defined |-> FALSE, val |-> [startTs |-> Ts(0, 0), endTs |-> Ts(0, 0)]]
SomeTimeFilter(tf) == [defined |-> TRUE, val |-> tf]
NoParams == [defined |-> FALSE, val |-> [args |-> "", _timeFilter |-> NoTimeFilter]]
NoResult == [defined |-> FALSE, success |-> FALSE, result |-> <<>>, error |-> <<>>]

\* Contexts an Agent is constructed with (session id is not read by the loop).
ContextFilters == {SomeTimeFilter([startTs |-> Ts(0, 100), endTs |-> Ts(0, 200)])}

\* maxToolRounds as configured: absent, or a count.
NoMaxToolRounds == [defined |-> FALSE, val |-> 0]
ConfiguredMaxToolRounds == {NoMaxToolRounds} \cup {[defined |-> TRUE, val |-> n] : n \in 0..MaxRoundsCfg}

\* constructor: maxToolRounds: config.maxToolRounds ?? 5
AgentConstructor(cfg) == [maxToolRounds |-> IF cfg.defined THEN cfg.val ELSE DefaultMaxToolRounds]

\* Text is a sequence of fragments; '' is the empty sequence (falsy).
SystemPrompt == <<"system-prompt">>
\* The instruction pushed at agent.ts:161-164 (text abbreviated to ASCII).
ForcedFinishText == <<"answer-from-gathered-information-no-more-tools">>
\* The question of the r-th call made on the instance.
UserMessages(r) == {IF r = 1 THEN "q" ELSE "q-again"}
Fragments == {<<>>, <<"a">>}

SystemMessage == [role |-> "system", content |-> SystemPrompt, tool_calls |-> <<>>, tool_call_id |-> 0]
UserMessage(text) == [role |-> "user", content |-> text, tool_calls |-> <<>>, tool_call_id |-> 0]
\* Variant: the assistant message of a round carries text.
AssistantMessageWithText(tcs) ==
  [role |-> "assistant", content |-> <<"a">>, tool_calls |-> tcs, tool_call_id |-> 0]
AssistantMessage(tcs) == [role |-> "assistant", content |-> <<>>, tool_calls |-> tcs, tool_call_id |-> 0]
ToolMessage(text, id) == [role |-> "tool", content |-> text, tool_calls |-> <<>>, tool_call_id |-> id]

\* ------------------------------------------------------- registered tools
RegisteredTools == {"search_messages", "get_recent_messages", "get_member_stats", "get_time_stats"}

\* What the model may ask for: a registered tool with a parseable payload,
\* a registered tool with a truncated payload, and a tool nobody registered.
ToolShapes == { [name |-> "search_messages", arguments |-> "{}"],
                [name |-> "get_member_stats", arguments |-> "{bad"],
                [name |-> "no_such_tool", arguments |-> "{}"] }

ShapeSeqs(n) == UNION {[1..k -> ToolShapes] : k \in 0..n}

\* The model client numbers the calls of one response; ids are unique per run.
CallId(r, callNo, i) == 100 * r + 10 * callNo + i
MkToolCalls(r, callNo, shapes) ==
  [i \in 1..Len(shapes) |-> [id |-> CallId(r, callNo, i), type |-> "function", function |-> shapes[i]]]

Min(a, b) == IF a < b THEN a ELSE b

\* room: how many more tool calls the model may still request in this run.
ToolCallOptions(r, callNo, room) ==
  {NoToolCalls} \cup {SomeToolCalls(MkToolCalls(r, callNo, s)) : s \in ShapeSeqs(Min(MaxBatch, room))}

FinishReasons == {"stop", "tool_calls"}

\* chat(): one buffered response.
Responses(r, callNo, room) ==
  [content : Fragments, finishReason : FinishReasons, tool_calls : ToolCallOptions(r, callNo, room)]

\* The text of a chunk: none, or a fragment naming the chunk's place among
\* the chunks the run has received (seen = how many came before).
FragmentNames == <<"a", "b", "c">>
ChunkFragments(seen) == {<<>>, <<FragmentNames[Min(seen + 1, Len(FragmentNames))]>>}

\* chatStream(): one chunk.
Chunks(r, callNo, room, seen) ==
  [content : ChunkFragments(seen), tool_calls : ToolCallOptions(r, callNo, room),
   isFinished : {FALSE}, finishReason : {"none"}]
  \cup [content : ChunkFragments(seen), tool_calls : ToolCallOptions(r, callNo, room),
        isFinished : {TRUE}, finishReason : FinishReasons]

\* An optional numeric argument of a tool call, and its JavaScript truthiness.
NoNumber == [defined |-> FALSE, val |-> 0]
SomeNumber(n) == [defined |-> TRUE, val |-> n]
Truthy(x) == x.defined /\ x.val /= 0
\* x || dflt
OrElse(x, dflt) == IF Truthy(x) THEN x.val ELSE dflt
NoToolParams == [year |-> NoNumber, month |-> NoNumber, limit |-> NoNumber]

\* JSON.parse(tc.function.arguments || '{}'): throws on a malformed payload.
JSONParses(arguments) == arguments \in {"", "{}"}
JSONParse(arguments) == IF arguments = "" THEN "{}" ELSE arguments

\* JSON.stringify(result.result) and the error template of handleToolCalls.
JSONStringify(value) == <<"json">> \o value
ErrorText(error) == <<"error: ">> \o error

\* ------------------------------------------------------------------- state
VARIABLES
  config,      \* this.config (maxToolRounds after the constructor's default)
  context,     \* this.context.timeFilter
  messages,    \* this.messages: reference into msgHeap
  toolsUsed,   \* this.toolsUsed: reference into toolsHeap
  toolRounds,  \* this.toolRounds
  msgHeap,     \* the ChatMessage[] arrays allocated so far
  toolsHeap,   \* the string[] arrays allocated so far
  runs,        \* the calls of execute/executeStream made on the instance
  pc,          \* per run: where the call is suspended
  mode,        \* per run: "execute" or "executeStream"
  frame,       \* per run: the locals of the call
  result,      \* per run: the AgentResult returned
  callLog,     \* per run: one entry per model call issued, TRUE if tools were advertised
  events,      \* per run: the chunks handed to onChunk, in order
  completed,   \* per run: indices of the current batch in completion order
  requested,   \* per run: number of tool calls dispatched so far
  given,       \* the maxToolRounds the constructor was passed
  heard,       \* per run: the text the latest model call has delivered so far
  alwaysTool,  \* per run: every tool-eligible call so far ended in a dispatch of >= 1 tool
  first,       \* per run: "open" until the first model call is over, then whether it
               \*          carried tool calls ("tools") or none at all ("plain")
  quota,       \* what the model may deliver to one run: tool calls and stream chunks;
               \*          noted: the decisions of the model are kept in `decisions`
  marks,       \* per run: the number of events delivered when each model call was issued
  abandoned,   \* per run: the caller has stopped consuming the events of the call
  lastQuery,   \* the latest query a tool executor sent to the data store
  decisions    \* per run: what each model call has decided so far: the tool calls
               \*          it carried last and the finish reason it ended with

vars == <<config, context, messages, toolsUsed, toolRounds, msgHeap, toolsHeap,
          runs, pc, mode, frame, result, callLog, events, completed, requested,
          given, heard, alwaysTool, first, quota, marks, abandoned, lastQuery, decisions>>

\* No executor has queried the data store.
NoQuery == [method |-> "none", params |-> NoToolParams, timeFilter |-> NoTimeFilter, limit |-> 0]

\* What the promise of a call has settled with: nothing yet, an AgentResult
\* (returned), or an error (rejected).
NoAgentResult ==
  [returned |-> FALSE, rejected |-> FALSE, content |-> <<>>, toolsUsed |-> 1, toolRounds |-> 0]
\* Variant: the answering response is counted as a round.
AgentResultCountsAnswer(content, tu, tr) ==
  [returned |-> TRUE, rejected |-> FALSE, content |-> content, toolsUsed |-> tu, toolRounds |-> tr + 1]

AgentResult(content, tu, tr) ==
  [returned |-> TRUE, rejected |-> FALSE, content |-> content, toolsUsed |-> tu, toolRounds |-> tr]

EmptyFrame == [accumulatedContent |-> <<>>, toolCalls |-> NoToolCalls, finalContent |-> <<>>,
               tcs |-> <<>>, results |-> <<>>, chunks |-> 0]

\* Field initialisers (agent.ts:97-99) and the constructor; no call made yet.
Constructed(rs, cfgs, q) ==
  /\ given \in cfgs
  /\ quota = q
  /\ config = AgentConstructor(given)
  /\ msgHeap = << <<>> >>
  /\ toolsHeap = << <<>> >>
  /\ messages = 1
  /\ toolsUsed = 1
  /\ toolRounds = 0
  /\ runs = rs
  /\ pc = [r \in AllRuns |-> "idle"]
  /\ mode = [r \in AllRuns |-> "none"]
  /\ frame = [r \in AllRuns |-> EmptyFrame]
  /\ result = [r \in AllRuns |-> NoAgentResult]
  /\ callLog = [r \in AllRuns |-> <<>>]
  /\ events = [r \in AllRuns |-> <<>>]
  /\ completed = [r \in AllRuns |-> <<>>]
  /\ requested = [r \in AllRuns |-> 0]
  /\ heard = [r \in AllRuns |-> <<>>]
  /\ alwaysTool = [r \in AllRuns |-> TRUE]
  /\ first = [r \in AllRuns |-> "open"]
  /\ marks = [r \in AllRuns |-> <<>>]
  /\ abandoned = [r \in AllRuns |-> FALSE]
  /\ lastQuery = NoQuery
  /\ decisions = [r \in AllRuns |-> <<>>]

InitWith(rs, cfgs, q) ==
  /\ context \in {[timeFilter |-> f] : f \in ContextFilters}
  /\ Constructed(rs, cfgs, q)

Init == InitWith({1}, ConfiguredMaxToolRounds, [calls |-> MaxToolCalls, chunks |-> MaxChunks, extra |-> ExtraCalls, noted |-> FALSE])

\* Model calls a run may issue before the model cuts it off.
MaxModelCalls == config.maxToolRounds + 1 + quota.extra
Room(r) == quota.calls - requested[r]

\* The first model call of a run is over and carried tool calls or not.
FirstOver(r, hasToolCalls) ==
  first' = [first EXCEPT ![r] = IF @ /= "open" THEN @ ELSE IF hasToolCalls THEN "tools" ELSE "plain"]
\* The first model call of a run delivers a chunk.
FirstSeen(r, hasToolCalls) ==
  first' = [first EXCEPT ![r] = IF @ = "open" /\ hasToolCalls THEN "tools" ELSE @]

\* A model call is issued: nothing decided yet.
Pending == [tool_calls |-> NoToolCalls, finishReason |-> "pending"]
\* The latest model call of a run delivers a response or a chunk: the tool
\* calls seen last and the finish reason of the terminal marker are kept.
Decided(r, toolCalls, finishReason) ==
  decisions' = IF ~quota.noted THEN decisions
               ELSE [decisions EXCEPT ![r][Len(decisions[r])] =
                       [tool_calls |-> IF toolCalls.defined THEN toolCalls ELSE @.tool_calls,
                        finishReason |-> IF finishReason /= "none" THEN finishReason ELSE @.finishReason]]

\* Variants: the array is overwritten instead of extended; the last of
\* several elements is not yet in the array when push returns; the elements
\* are appended twice.
PushTwice(heap, ref, elems) == [heap EXCEPT ![ref] = @ \o elems \o elems]
PushReplaces(heap, ref, elems) == [heap EXCEPT ![ref] = elems]
PushDropsLast(heap, ref, elems) ==
  [heap EXCEPT ![ref] = @ \o SubSeq(elems, 1, IF Len(elems) > 1 THEN Len(elems) - 1 ELSE Len(elems))]

\* Array.push on the array a reference points to.
Push(heap, ref, elems) == [heap EXCEPT ![ref] = @ \o elems]

\* The loop test of execute/executeStream with this.toolRounds = tr, up to the
\* model call it leads to: another tool-eligible call, or the forced finish.
\* Variant: the loop test admits one round too many.
LoopTestInclusive(tr, maxToolRounds) == tr <= maxToolRounds

LoopTest(tr, maxToolRounds) == tr < maxToolRounds

LoopHead(r, tr) ==
  /\ Len(callLog[r]) < MaxModelCalls
  /\ heard' = [heard EXCEPT ![r] = <<>>]
  /\ decisions' = IF quota.noted THEN [decisions EXCEPT ![r] = Append(@, Pending)] ELSE decisions
  /\ marks' = [marks EXCEPT ![r] = Append(@, Len(events[r]))]
  /\ IF LoopTest(tr, config.maxToolRounds)
       THEN /\ msgHeap' = msgHeap
            /\ callLog' = [callLog EXCEPT ![r] = Append(@, TRUE)]
            /\ pc' = [pc EXCEPT ![r] = IF mode[r] = "execute" THEN "chat" ELSE "stream"]
            /\ frame' = [frame EXCEPT ![r].accumulatedContent = <<>>, ![r].toolCalls = NoToolCalls]
       ELSE /\ msgHeap' = Push(msgHeap, messages, <<UserMessage(ForcedFinishText)>>)
            /\ callLog' = [callLog EXCEPT ![r] = Append(@, FALSE)]
            /\ pc' = [pc EXCEPT ![r] = IF mode[r] = "execute" THEN "final" ELSE "finalStream"]
            /\ frame' = frame

\* Variant: the arrays of the instance are emptied and refilled in place.
SeedInPlace(userMessage) ==
  /\ msgHeap' = [msgHeap EXCEPT ![messages] = <<SystemMessage, UserMessage(<<userMessage>>)>>]
  /\ toolsHeap' = [toolsHeap EXCEPT ![toolsUsed] = <<>>]
  /\ toolRounds' = 0
  /\ UNCHANGED <<messages, toolsUsed>>

\* this.messages = [system, user]; this.toolsUsed = []; this.toolRounds = 0:
\* two new arrays are assigned to the fields.
Seed(userMessage) ==
  /\ msgHeap' = Append(msgHeap, <<SystemMessage, UserMessage(<<userMessage>>)>>)
  /\ messages' = Len(msgHeap) + 1
  /\ toolsHeap' = Append(toolsHeap, <<>>)
  /\ toolsUsed' = Len(toolsHeap) + 1
  /\ toolRounds' = 0

\* execute(userMessage) up to `await getAllToolDefinitions()`.
Execute(r, userMessage) ==
  /\ r \in runs /\ pc[r] = "idle"
  /\ Seed(userMessage)
  /\ mode' = [mode EXCEPT ![r] = "execute"]
  /\ pc' = [pc EXCEPT ![r] = "getTools"]
  /\ UNCHANGED <<config, context, runs, frame, result, callLog, events, completed, requested,
                 given, first, quota, heard, decisions, alwaysTool, marks, abandoned, lastQuery>>

\* executeStream(userMessage, onChunk) up to `await getAllToolDefinitions()`.
ExecuteStream(r, userMessage) ==
  /\ r \in runs /\ pc[r] = "idle"
  /\ Seed(userMessage)
  /\ mode' = [mode EXCEPT ![r] = "executeStream"]
  /\ pc' = [pc EXCEPT ![r] = "getTools"]
  /\ UNCHANGED <<config, context, runs, frame, result, callLog, events, completed, requested,
                 given, first, quota, heard, decisions, alwaysTool, marks, abandoned, lastQuery>>

\* getAllToolDefinitions() resolved: first evaluation of the loop test.
ToolsListed(r) ==
  /\ pc[r] = "getTools"
  /\ LoopHead(r, toolRounds)
  /\ UNCHANGED <<config, context, messages, toolsUsed, toolRounds, toolsHeap, runs, mode,
                 result, events, completed, requested, given, first, quota, alwaysTool, abandoned, lastQuery>>

\* ----------------------------------------------------------- tool dispatch
Success(value) == [defined |-> TRUE, success |-> TRUE, result |-> value, error |-> <<>>]
Failure(reason) == [defined |-> TRUE, success |-> FALSE, result |-> <<>>, error |-> <<reason>>]

\* One request through the dispatcher: parse the payload, look the executor
\* up, invoke it; every failure is materialised as a failure result.
ExecuteToolCall(tc) ==
  IF ~JSONParses(tc.function.arguments) THEN {Failure("invalid-arguments")}
  ELSE IF tc.function.name \notin RegisteredTools THEN {Failure("unknown-tool")}
  ELSE {Success(<<tc.function.name, JSONParse(tc.function.arguments)>>), Failure("executor-failed")}

\* handleToolCalls up to `await executeToolCalls(toolCalls, this.context)`.
HandleToolCallsBegin(r, toolCalls) ==
  /\ msgHeap' = Push(msgHeap, messages, <<AssistantMessage(toolCalls)>>)
  /\ frame' = [frame EXCEPT ![r].tcs = toolCalls,
                            ![r].results = [i \in 1..Len(toolCalls) |-> NoResult]]
  /\ completed' = [completed EXCEPT ![r] = <<>>]
  /\ requested' = [requested EXCEPT ![r] = @ + Len(toolCalls)]
  /\ pc' = [pc EXCEPT ![r] = "tools"]

\* executeToolCalls: request i of the batch in flight completes; the requests
\* of a batch complete in any order and each result lands at its request's index.
ToolComplete(r, i) ==
  /\ pc[r] = "tools"
  /\ i \in 1..Len(frame[r].tcs)
  /\ ~frame[r].results[i].defined
  /\ \E res \in ExecuteToolCall(frame[r].tcs[i]) :
       frame' = [frame EXCEPT ![r].results[i] = res]
  /\ completed' = [completed EXCEPT ![r] = Append(@, i)]
  /\ UNCHANGED <<config, context, messages, toolsUsed, toolRounds, msgHeap, toolsHeap, runs,
                 pc, mode, result, callLog, events, requested, given, first, quota, heard, decisions, alwaysTool, marks, abandoned, lastQuery>>

\* Variant: the outcome of a request is announced as the start of one.
ToolResultEventAsStart(tc, res) ==
  [type |-> "tool_start", content |-> <<>>, toolName |-> tc.function.name, toolParams |-> NoParams,
   toolResult |-> IF res.success THEN res.result ELSE res.error, isFinished |-> FALSE]

\* The body of handleToolCalls' loop for request i.
ToolResultEvent(tc, res) ==
  [type |-> "tool_result", content |-> <<>>, toolName |-> tc.function.name, toolParams |-> NoParams,
   toolResult |-> IF res.success THEN res.result ELSE res.error, isFinished |-> FALSE]
\* Variants: the message is keyed by another id; a failure is serialised like a success.
ToolResultMessageWrongId(tc, res) ==
  ToolMessage(IF res.success THEN JSONStringify(res.result) ELSE ErrorText(res.error), tc.id + 1)
ToolResultMessageDropsError(tc, res) == ToolMessage(JSONStringify(res.result), tc.id)

ToolResultMessage(tc, res) ==
  ToolMessage(IF res.success THEN JSONStringify(res.result) ELSE ErrorText(res.error), tc.id)

\* Variant: results are read back to front.
ResultAtReversed(results, i) == results[Len(results) + 1 - i]

\* results[i]
ResultAt(results, i) == results[i]

\* executeToolCalls resolved: the loop of handleToolCalls over the batch.
HandleToolCallsEnd(r) ==
  /\ pc[r] = "tools"
  /\ \A i \in 1..Len(frame[r].tcs) : frame[r].results[i].defined
  /\ LET tcs == frame[r].tcs
         results == frame[r].results
         n == Len(tcs)
     IN /\ toolsHeap' = Push(toolsHeap, toolsUsed, [i \in 1..n |-> tcs[i].function.name])
        /\ msgHeap' = Push(msgHeap, messages, [i \in 1..n |-> ToolResultMessage(tcs[i], ResultAt(results, i))])
        /\ events' = IF mode[r] = "executeStream"
                       THEN [events EXCEPT ![r] = @ \o [i \in 1..n |-> ToolResultEvent(tcs[i], ResultAt(results, i))]]
                       ELSE events
  /\ pc' = [pc EXCEPT ![r] = "handled"]
  /\ UNCHANGED <<config, context, messages, toolsUsed, toolRounds, runs, mode, frame, result,
                 callLog, completed, requested, given, first, quota, heard, decisions, alwaysTool, marks, abandoned, lastQuery>>

\* Variants: a round counted twice; a round not counted.
NextRoundSkips(tr) == tr + 2
NextRoundStuck(tr) == tr

\* this.toolRounds++
NextRound(tr) == tr + 1

\* handleToolCalls resolved: this.toolRounds++ and the next loop test.
RoundDone(r) ==
  /\ pc[r] = "handled"
  /\ toolRounds' = NextRound(toolRounds)
  /\ LoopHead(r, NextRound(toolRounds))
  /\ completed' = [completed EXCEPT ![r] = <<>>]
  /\ UNCHANGED <<config, context, messages, toolsUsed, toolsHeap, runs, mode, result, events, requested,
                 given, first, quota, alwaysTool, abandoned, lastQuery>>

\* -------------------------------------------------------------- execute
\* !response.tool_calls
IsPlainResponse(finishReason, toolCalls) == finishReason /= "tool_calls" \/ ~toolCalls.defined

\* chat() resolved inside the loop of execute.
ChatResponse(r, response) ==
  /\ pc[r] = "chat"
  /\ IF IsPlainResponse(response.finishReason, response.tool_calls)
       THEN /\ result' = [result EXCEPT ![r] = AgentResult(response.content, toolsUsed, toolRounds)]
            /\ pc' = [pc EXCEPT ![r] = "done"]
            /\ alwaysTool' = [alwaysTool EXCEPT ![r] = FALSE]
            /\ UNCHANGED <<msgHeap, frame, completed, requested>>
       ELSE /\ HandleToolCallsBegin(r, response.tool_calls.val)
            /\ alwaysTool' = [alwaysTool EXCEPT ![r] = @ /\ Len(response.tool_calls.val) > 0]
            /\ UNCHANGED result
  /\ heard' = [heard EXCEPT ![r] = response.content]
  /\ Decided(r, response.tool_calls, response.finishReason)
  /\ FirstOver(r, response.tool_calls.defined)
  /\ UNCHANGED <<config, context, messages, toolsUsed, toolRounds, toolsHeap, runs, mode, callLog, events,
                 given, quota, marks, abandoned, lastQuery>>

\* The final chat() of execute, issued without tools, resolved.
FinalResponse(r, response) ==
  /\ pc[r] = "final"
  /\ result' = [result EXCEPT ![r] = AgentResult(response.content, toolsUsed, toolRounds)]
  /\ pc' = [pc EXCEPT ![r] = "done"]
  /\ heard' = [heard EXCEPT ![r] = response.content]
  /\ Decided(r, response.tool_calls, response.finishReason)
  /\ FirstOver(r, response.tool_calls.defined)
  /\ UNCHANGED <<config, context, messages, toolsUsed, toolRounds, msgHeap, toolsHeap, runs, mode,
                 frame, callLog, events, completed, requested, given, quota, alwaysTool, marks, abandoned, lastQuery>>

\* --------------------------------------------------------- executeStream
ContentEvent(text) ==
  [type |-> "content", content |-> text, toolName |-> "", toolParams |-> NoParams,
   toolResult |-> <<>>, isFinished |-> FALSE]
DoneEvent ==
  [type |-> "done", content |-> <<>>, toolName |-> "", toolParams |-> NoParams,
   toolResult |-> <<>>, isFinished |-> TRUE]

\* toolParams of the tool_start event: the parsed payload, with the ambient
\* time filter merged in for the two search tools; undefined if parsing throws.
ToolStartParams(tc, timeFilter) ==
  IF ~JSONParses(tc.function.arguments) THEN NoParams
  ELSE [defined |-> TRUE,
        val |-> [args |-> JSONParse(tc.function.arguments),
                 _timeFilter |-> IF timeFilter.defined
                                      /\ tc.function.name \in {"search_messages", "get_recent_messages"}
                                   THEN timeFilter ELSE NoTimeFilter]]
\* Variant: the event does not name the tool when the payload cannot be parsed.
ToolStartEventUnnamed(tc, timeFilter) ==
  [type |-> "tool_start", content |-> <<>>,
   toolName |-> IF JSONParses(tc.function.arguments) THEN tc.function.name ELSE "",
   toolParams |-> ToolStartParams(tc, timeFilter), toolResult |-> <<>>, isFinished |-> FALSE]

ToolStartEvent(tc, timeFilter) ==
  [type |-> "tool_start", content |-> <<>>, toolName |-> tc.function.name,
   toolParams |-> ToolStartParams(tc, timeFilter), toolResult |-> <<>>, isFinished |-> FALSE]

\* Variant: a fragment is put in front of the running text.
AccumulatePrepends(text, fragment) == fragment \o text

\* accumulatedContent += chunk.content (finalContent += chunk.content)
Accumulate(text, fragment) == text \o fragment

\* toolCalls && toolCalls.length > 0
HasToolCalls(toolCalls) == toolCalls.defined /\ Len(toolCalls.val) > 0

\* One chunk of the tool-eligible stream: the body of the for-await loop.
StreamChunk(r, chunk) ==
  /\ pc[r] = "stream"
  /\ frame[r].chunks < quota.chunks
  /\ LET acc == Accumulate(frame[r].accumulatedContent, chunk.content)
         tcs == IF chunk.tool_calls.defined THEN chunk.tool_calls ELSE frame[r].toolCalls
         ev  == IF chunk.content /= <<>> THEN <<ContentEvent(chunk.content)>> ELSE <<>>
     IN IF chunk.isFinished /\ IsPlainResponse(chunk.finishReason, tcs)
          THEN /\ frame' = [frame EXCEPT ![r].accumulatedContent = acc, ![r].toolCalls = tcs,
                                         ![r].finalContent = acc, ![r].chunks = @ + 1]
               /\ events' = [events EXCEPT ![r] = @ \o ev \o <<DoneEvent>>]
               /\ result' = [result EXCEPT ![r] = AgentResult(acc, toolsUsed, toolRounds)]
               /\ pc' = [pc EXCEPT ![r] = "done"]
               /\ alwaysTool' = [alwaysTool EXCEPT ![r] = FALSE]
               /\ FirstOver(r, chunk.tool_calls.defined)
          ELSE /\ frame' = [frame EXCEPT ![r].accumulatedContent = acc, ![r].toolCalls = tcs,
                                         ![r].chunks = @ + 1]
               /\ events' = [events EXCEPT ![r] = @ \o ev]
               /\ FirstSeen(r, chunk.tool_calls.defined)
               /\ UNCHANGED <<result, pc, alwaysTool>>
  /\ heard' = [heard EXCEPT ![r] = @ \o chunk.content]
  /\ Decided(r, chunk.tool_calls, chunk.finishReason)
  /\ UNCHANGED <<config, context, messages, toolsUsed, toolRounds, msgHeap, toolsHeap, runs, mode,
                 callLog, completed, requested, given, quota, marks, abandoned, lastQuery>>

\* The tool-eligible stream is exhausted: dispatch the retained tool calls,
\* or go round the loop again.
StreamEnd(r) ==
  /\ pc[r] = "stream"
  /\ FirstOver(r, FALSE)
  /\ IF HasToolCalls(frame[r].toolCalls)
       THEN LET tcs == frame[r].toolCalls.val
            IN /\ events' = [events EXCEPT ![r] =
                               @ \o [i \in 1..Len(tcs) |-> ToolStartEvent(tcs[i], context.timeFilter)]]
               /\ HandleToolCallsBegin(r, tcs)
               /\ UNCHANGED <<callLog, heard, decisions, alwaysTool, marks>>
       ELSE /\ LoopHead(r, toolRounds)
            /\ alwaysTool' = [alwaysTool EXCEPT ![r] = FALSE]
            /\ UNCHANGED <<events, completed, requested>>
  /\ UNCHANGED <<config, context, messages, toolsUsed, toolRounds, toolsHeap, runs, mode, result, given, quota, abandoned, lastQuery>>

\* One chunk of the final stream, issued without tools.
FinalChunk(r, chunk) ==
  /\ pc[r] = "finalStream"
  /\ frame[r].chunks < quota.chunks
  /\ frame' = [frame EXCEPT ![r].finalContent = Accumulate(@, chunk.content), ![r].chunks = @ + 1]
  /\ events' = [events EXCEPT ![r] =
                  @ \o (IF chunk.content /= <<>> THEN <<ContentEvent(chunk.content)>> ELSE <<>>)
                    \o (IF chunk.isFinished THEN <<DoneEvent>> ELSE <<>>)]
  /\ heard' = [heard EXCEPT ![r] = @ \o chunk.content]
  /\ Decided(r, chunk.tool_calls, chunk.finishReason)
  /\ FirstSeen(r, chunk.tool_calls.defined)
  /\ UNCHANGED <<config, context, messages, toolsUsed, toolRounds, msgHeap, toolsHeap, runs, pc, mode,
                 result, callLog, completed, requested, given, quota, alwaysTool, marks, abandoned, lastQuery>>

\* The final stream is exhausted: executeStream returns.
FinalStreamEnd(r) ==
  /\ pc[r] = "finalStream"
  /\ result' = [result EXCEPT ![r] = AgentResult(frame[r].finalContent, toolsUsed, toolRounds)]
  /\ pc' = [pc EXCEPT ![r] = "done"]
  /\ FirstOver(r, FALSE)
  /\ UNCHANGED <<config, context, messages, toolsUsed, toolRounds, msgHeap, toolsHeap, runs, mode,
                 frame, callLog, events, completed, requested, given, quota, heard, decisions, alwaysTool, marks, abandoned, lastQuery>>

\* ---------------------------------------------------- failure and caller
\* chat() rejects, or chatStream() throws while it is iterated: neither
\* execute nor executeStream catches, so the call rejects where it stands.
\* Variant: the call goes back to the head of its loop.
RejectedResumes(at) == "getTools"

\* Where a call stands once the model call it awaited at `at` has thrown:
\* the exception leaves the loop and the function.
Rejected(at) == "failed"

ModelCallFails(r) ==
  /\ pc[r] \in {"chat", "final", "stream", "finalStream"}
  /\ pc' = [pc EXCEPT ![r] = Rejected(@)]
  /\ result' = [result EXCEPT ![r].rejected = TRUE]
  /\ UNCHANGED <<config, context, messages, toolsUsed, toolRounds, msgHeap, toolsHeap, runs, mode,
                 frame, callLog, events, completed, requested, given, heard, decisions, alwaysTool,
                 first, quota, marks, abandoned, lastQuery>>

\* The caller of executeStream stops consuming events while a model stream
\* or a tool batch is in flight. executeStream takes the sink as a callback
\* and nothing else: no statement of it reads whether the caller still listens.
Abandon(r) ==
  /\ mode[r] = "executeStream"
  /\ pc[r] \in {"stream", "finalStream", "tools"}
  /\ ~abandoned[r]
  /\ abandoned' = [abandoned EXCEPT ![r] = TRUE]
  /\ UNCHANGED <<config, context, messages, toolsUsed, toolRounds, msgHeap, toolsHeap, runs, pc, mode,
                 frame, result, callLog, events, completed, requested, given, heard, decisions, alwaysTool,
                 first, quota, marks, lastQuery>>

\* ---------------------------------------------------------- specification
Next ==
  \/ \E r \in AllRuns : \E m \in UserMessages(r) : Execute(r, m)
  \/ \E r \in AllRuns : \E m \in UserMessages(r) : ExecuteStream(r, m)
  \/ \E r \in AllRuns : ToolsListed(r)
  \/ \E r \in AllRuns : \E response \in Responses(r, Len(callLog[r]), Room(r)) : ChatResponse(r, response)
  \/ \E r \in AllRuns : \E i \in 1..MaxBatch : ToolComplete(r, i)
  \/ \E r \in AllRuns : HandleToolCallsEnd(r)
  \/ \E r \in AllRuns : RoundDone(r)
  \/ \E r \in AllRuns : \E response \in Responses(r, Len(callLog[r]), Room(r)) : FinalResponse(r, response)
  \/ \E r \in AllRuns : \E chunk \in Chunks(r, Len(callLog[r]), Room(r), frame[r].chunks) : StreamChunk(r, chunk)
  \/ \E r \in AllRuns : StreamEnd(r)
  \/ \E r \in AllRuns : \E chunk \in Chunks(r, Len(callLog[r]), Room(r), frame[r].chunks) : FinalChunk(r, chunk)
  \/ \E r \in AllRuns : FinalStreamEnd(r)
  \/ \E r \in AllRuns : ModelCallFails(r)

Spec == Init /\ [][Next]_vars

\* Two calls on one Agent instance, free to overlap; the model delivers one
\* tool call and one chunk to each.
InitConc ==
  InitWith(AllRuns, {[defined |-> TRUE, val |-> 1]}, [calls |-> 1, chunks |-> 1, extra |-> 0, noted |-> FALSE])
SpecConc == InitConc /\ [][Next]_vars

\* The run together with a caller that may stop listening to its events.
NextWithCaller ==
  \/ Next
  \/ \E r \in AllRuns : Abandon(r)
SpecCaller == Init /\ [][NextWithCaller]_vars

\* The caller makes another call on the instance once every earlier call has
\* settled.
Settled(r) == result[r].returned \/ result[r].rejected
NextCall(r) ==
  /\ r \notin runs
  /\ \A q \in runs : Settled(q)
  /\ runs' = runs \cup {r}
  /\ UNCHANGED <<config, context, messages, toolsUsed, toolRounds, msgHeap, toolsHeap, pc, mode,
                 frame, result, callLog, events, completed, requested, given, heard, decisions, alwaysTool,
                 first, quota, marks, abandoned, lastQuery>>

\* One Agent instance used for one call after the other.
InitReuse ==
  InitWith({1}, {[defined |-> TRUE, val |-> n] : n \in 0..1}, [calls |-> 1, chunks |-> 1, extra |-> 0, noted |-> FALSE])
NextReuse ==
  \/ Next
  \/ \E r \in AllRuns : NextCall(r)
SpecReuse == InitReuse /\ [][NextReuse]_vars

\* A buffered call followed, once it has settled, by a streaming call on the
\* same instance, with the decisions of the model kept for each.
InitNoted ==
  InitWith({1}, {[defined |-> TRUE, val |-> n] : n \in 0..1},
           [calls |-> 1, chunks |-> MaxChunks, extra |-> 0, noted |-> TRUE])
NextNoted ==
  \/ \E m \in UserMessages(1) : Execute(1, m)
  \/ \E m \in UserMessages(2) : ExecuteStream(2, m)
  \/ \E r \in AllRuns : ToolsListed(r)
  \/ \E r \in AllRuns : \E response \in Responses(r, Len(callLog[r]), Room(r)) : ChatResponse(r, response)
  \/ \E r \in AllRuns : \E i \in 1..MaxBatch : ToolComplete(r, i)
  \/ \E r \in AllRuns : HandleToolCallsEnd(r)
  \/ \E r \in AllRuns : RoundDone(r)
  \/ \E r \in AllRuns : \E response \in Responses(r, Len(callLog[r]), Room(r)) : FinalResponse(r, response)
  \/ \E r \in AllRuns : \E chunk \in Chunks(r, Len(callLog[r]), Room(r), frame[r].chunks) : StreamChunk(r, chunk)
  \/ \E r \in AllRuns : StreamEnd(r)
  \/ \E r \in AllRuns : \E chunk \in Chunks(r, Len(callLog[r]), Room(r), frame[r].chunks) : FinalChunk(r, chunk)
  \/ \E r \in AllRuns : FinalStreamEnd(r)
  \/ \E r \in AllRuns : NextCall(r)
SpecNoted == InitNoted /\ [][NextNoted]_vars

\* Every step that can be taken eventually is: the model client, the model
\* stream and the tools respond.
FairSpec == Spec /\ WF_vars(Next)

\* ------------------------------------------------------- tool executors
\* What a tool call may carry for year, month and limit: nothing, or a number
\* as the model wrote it (no schema validation stands between the two).
YearArgs == {NoNumber} \cup {SomeNumber(y) : y \in {0, 24, 1900, 2023, 2024, 2100}}
MonthArgs == {NoNumber} \cup {SomeNumber(m) : m \in 0..13}
LimitArgs == {NoNumber} \cup {SomeNumber(n) : n \in {-1, 0, 1, 5000, 5001}}
\* Every year with every month at the default limit, and every limit with
\* and without a year.
ToolParams ==
  [year : YearArgs, month : MonthArgs, limit : {NoNumber}]
    \cup [year : {NoNumber, SomeNumber(2024)}, month : {NoNumber}, limit : LimitArgs]
AmbientFilters == ContextFilters \cup {NoTimeFilter}

\* new Date(year, monthIndex, date, hours, minutes, seconds).getTime(), as
\* ECMAScript defines it (MakeDay, MakeTime, MakeDate): the day number and
\* the milliseconds within the day; the local time zone is taken to be UTC.
\* Years 0..99 stand for 1900..1999.
DateFullYear(year) == IF year >= 0 /\ year <= 99 THEN 1900 + year ELSE year
DayFromYear(y) ==
  365 * (y - 1970) + ((y - 1969) \div 4) - ((y - 1901) \div 100) + ((y - 1601) \div 400)
InLeapYear(y) == (y % 4 = 0 /\ y % 100 /= 0) \/ y % 400 = 0
DayWithinYear(mn, leap) ==
  <<0, 31, 59, 90, 120, 151, 181, 212, 243, 273, 304, 334>>[mn + 1] + (IF leap /\ mn >= 2 THEN 1 ELSE 0)
MakeDay(year, month, date) ==
  LET ym == year + (month \div 12)
      mn == month % 12
  IN DayFromYear(ym) + DayWithinYear(mn, InLeapYear(ym)) + date - 1
MakeTime(hours, minutes, seconds) == ((hours * 60 + minutes) * 60 + seconds) * 1000
NewDate(year, monthIndex, date, hours, minutes, seconds) ==
  [day |-> MakeDay(DateFullYear(year), monthIndex, date), ms |-> MakeTime(hours, minutes, seconds)]
\* Math.floor(date.getTime() / 1000)
EpochSeconds(date) == Ts(date.day, date.ms \div 1000)

\* endDate of a year-and-month window: day 0 of the following month.
MonthEnd(year, month) == NewDate(year, month, 0, 23, 59, 59)

\* startDate of a year-only window.
YearStart(year) == NewDate(year, 0, 1, 0, 0, 0)

\* Variant: a call without a year gets no filter at all.
FallbackNone(contextTimeFilter) == NoTimeFilter

\* let effectiveTimeFilter = contextTimeFilter
Fallback(contextTimeFilter) == contextTimeFilter

\* The time filter an executor hands to the data store (the same statements
\* in searchMessagesExecutor and getRecentMessagesExecutor).
EffectiveTimeFilter(params, contextTimeFilter) ==
  IF Truthy(params.year)
    THEN LET year == params.year.val
             month == params.month
             startDate == IF Truthy(month) THEN NewDate(year, month.val - 1, 1, 0, 0, 0)
                                           ELSE YearStart(year)
             endDate == IF Truthy(month) THEN MonthEnd(year, month.val)
                                         ELSE NewDate(year, 11, 31, 23, 59, 59)
         IN SomeTimeFilter([startTs |-> EpochSeconds(startDate), endTs |-> EpochSeconds(endDate)])
    ELSE Fallback(contextTimeFilter)

\* Variant: the override of a call is stored in the context.
ToolContextOverridden(ctx, effectiveTimeFilter) == [ctx EXCEPT !.timeFilter = effectiveTimeFilter]

\* The context after an executor has run: the executors read sessionId and
\* timeFilter out of it and assign to the local effectiveTimeFilter only.
ToolContextAfter(ctx, effectiveTimeFilter) == ctx

DefaultSearchLimit == 200
MaxSearchLimit == 5000
DefaultRecentLimit == 100

AgentVars == <<config, messages, toolsUsed, toolRounds, msgHeap, toolsHeap, runs, pc, mode, frame,
               result, callLog, events, completed, requested, given, heard, alwaysTool, first,
               quota, marks, abandoned, decisions>>

SearchMessagesExecutor(params) ==
  LET effectiveTimeFilter == EffectiveTimeFilter(params, context.timeFilter)
  IN /\ lastQuery' = [method |-> "searchMessages", params |-> params,
                      timeFilter |-> effectiveTimeFilter,
                      limit |-> Min(OrElse(params.limit, DefaultSearchLimit), MaxSearchLimit)]
     /\ context' = ToolContextAfter(context, effectiveTimeFilter)
     /\ UNCHANGED AgentVars

GetRecentMessagesExecutor(params) ==
  LET effectiveTimeFilter == EffectiveTimeFilter(params, context.timeFilter)
  IN /\ lastQuery' = [method |-> "getRecentMessages", params |-> params,
                      timeFilter |-> effectiveTimeFilter,
                      limit |-> OrElse(params.limit, DefaultRecentLimit)]
     /\ context' = ToolContextAfter(context, effectiveTimeFilter)
     /\ UNCHANGED AgentVars

\* get_member_stats and get_time_stats read no year or month.
GetMemberStatsExecutor(params) ==
  /\ lastQuery' = [method |-> "getMemberActivity", params |-> params,
                   timeFilter |-> context.timeFilter, limit |-> 0]
  /\ UNCHANGED <<context, AgentVars>>

GetTimeStatsExecutor(params, type) ==
  /\ lastQuery' = [method |-> CASE type = "hourly" -> "getHourlyActivity"
                                 [] type = "weekday" -> "getWeekdayActivity"
                                 [] type = "daily" -> "getDailyActivity",
                   params |-> params, timeFilter |-> context.timeFilter, limit |-> 0]
  /\ UNCHANGED <<context, AgentVars>>

\* Tool calls against the context of one run, one after the other.
InitTools ==
  /\ context \in {[timeFilter |-> f] : f \in AmbientFilters}
  /\ Constructed({}, {NoMaxToolRounds}, [calls |-> 0, chunks |-> 0, extra |-> 0, noted |-> FALSE])
NextTools ==
  \/ \E params \in ToolParams : SearchMessagesExecutor(params)
  \/ \E params \in ToolParams : GetRecentMessagesExecutor(params)
  \/ \E params \in ToolParams : GetMemberStatsExecutor(params)
  \/ \E params \in ToolParams, type \in {"hourly", "weekday", "daily"} : GetTimeStatsExecutor(params, type)
SpecTools == InitTools /\ [][NextTools]_vars

\* ------------------------------------------------------------- properties
\* The conversation history and the used-tools list of the instance.
History == msgHeap[messages]
Used == toolsHeap[toolsUsed]
IsPrefix(a, b) == Len(a) <= Len(b) /\ \A k \in 1..Len(a) : a[k] = b[k]
CountRole(h, role) == Cardinality({k \in 1..Len(h) : h[k].role = role})
ToolCallIds(m) == {m.tool_calls[k].id : k \in 1..Len(m.tool_calls)}

\* C1: the round counter never exceeds maxToolRounds in any state of a run, a
\* returned result's toolRounds is at most maxToolRounds, and maxToolRounds is 5
\* when none was configured.
C1_RoundsWithinMax ==
  /\ toolRounds <= config.maxToolRounds
  /\ \A r \in runs : result[r].returned => result[r].toolRounds <= config.maxToolRounds
  /\ (~given.defined => config.maxToolRounds = 5)
C1_Witness ==
  \E r \in runs : /\ result[r].returned
                  /\ config.maxToolRounds >= 1
                  /\ result[r].toolRounds = config.maxToolRounds

\* C2: when every tool-eligible call of a run ended in a dispatch, a run with
\* maxToolRounds = N that has returned made N tool-eligible calls and then one
\* call without tools, dispatched N rounds, appended the forced-finish message
\* once and last, and returned the text of the last call with toolRounds = N.
C2_AlwaysToolForcedFinish ==
  \A r \in runs :
    (result[r].returned /\ alwaysTool[r]) =>
      LET N == config.maxToolRounds
          h == History
      IN /\ result[r].toolRounds = N
         /\ callLog[r] = [k \in 1..(N + 1) |-> k <= N]
         /\ CountRole(h, "assistant") = N
         /\ h[Len(h)] = UserMessage(ForcedFinishText)
         /\ Cardinality({k \in 1..Len(h) : h[k] = UserMessage(ForcedFinishText)}) = 1
         /\ result[r].content = heard[r]
C2_Witness ==
  \E r \in runs : /\ result[r].returned /\ alwaysTool[r]
                  /\ config.maxToolRounds = 2
                  /\ mode[r] = "executeStream"
                  /\ Len(Used) = 2

\* C3: a buffered run issues at most maxToolRounds + 1 model calls, and once
\* started it eventually returns a result, unless a model call fails.
C3_ExecuteTerminates ==
  /\ [](mode[1] = "execute" => Len(callLog[1]) <= config.maxToolRounds + 1)
  /\ ((mode[1] = "execute") ~> ((pc[1] = "done" /\ result[1].returned) \/ result[1].rejected))
C3_Witness ==
  /\ mode[1] = "execute" /\ pc[1] = "done" /\ result[1].returned
  /\ config.maxToolRounds >= 2
  /\ Len(callLog[1]) = config.maxToolRounds + 1

\* C4: a streaming run issues at most maxToolRounds + 1 model calls.
C4_StreamCallsBounded ==
  \A r \in runs : mode[r] = "executeStream" => Len(callLog[r]) <= config.maxToolRounds + 1

\* C5: a run whose first model call was tool-eligible and carried no tool calls
\* at all returns with toolRounds = 0 and toolsUsed empty, and its history is
\* exactly [system prompt, user message].
C5_PlainFirstResponse ==
  \A r \in runs :
    (first[r] = "plain" /\ callLog[r][1] /\ result[r].returned) =>
      /\ result[r].toolRounds = 0
      /\ toolsHeap[result[r].toolsUsed] = <<>>
      /\ History = <<SystemMessage, UserMessage(<<"q">>)>>

\* C6: every tool-role message of the history answers a tool call of the
\* nearest preceding assistant message, and only tool-role messages lie
\* between the two.
C6_ToolMessagesAnswerAssistant ==
  LET h == History
  IN \A k \in 1..Len(h) :
       h[k].role = "tool" =>
         \E j \in 1..(k - 1) :
           /\ h[j].role = "assistant"
           /\ \A m \in (j + 1)..(k - 1) : h[m].role = "tool"
           /\ h[k].tool_call_id \in ToolCallIds(h[j])
C6_Witness ==
  LET h == History
  IN \E j, k \in 1..Len(h) :
       /\ j < k
       /\ h[j].role = "assistant" /\ h[j + 1].role = "tool"
       /\ h[k].role = "assistant" /\ k < Len(h) /\ h[k + 1].role = "tool"

\* C7: once a run has seeded the history, every step leaves the previous
\* history as a prefix of the new one.
C7_HistoryAppendOnly ==
  [][pc[1] /= "idle" => IsPrefix(History, msgHeap'[messages'])]_vars
C7_Witness ==
  /\ pc[1] = "done"
  /\ Len(History) >= 6
  /\ History[Len(History)] = UserMessage(ForcedFinishText)

\* The batch just folded back: its requests, their outcomes as the dispatcher
\* delivered them, and the messages and events appended for them.
FoldedOK(r, check(_, _, _)) ==
  LET tcs == frame[r].tcs
      n == Len(tcs)
      h == History
      base == Len(h) - n
  IN /\ base >= 1
     /\ h[base] = AssistantMessage(tcs)
     /\ \A i \in 1..n : check(tcs[i], frame[r].results[i], h[base + i])
Rendered(res) == IF res.success THEN <<"json">> \o res.result ELSE <<"error: ">> \o res.error

C8_InRequestOrder(tc, res, m) ==
  m.role = "tool" /\ m.tool_call_id = tc.id /\ m.content = Rendered(res)

\* C8: when a batch has been folded back, the i-th message after the
\* assistant message is the tool message of the i-th request (its id) with the
\* outcome of the i-th request, there are as many as requests, and in
\* streaming mode the last events are the tool_result events of the requests,
\* in request order.
C8_ResultsInRequestOrder ==
  \A r \in runs :
    pc[r] = "handled" =>
      /\ FoldedOK(r, C8_InRequestOrder)
      /\ mode[r] = "executeStream" =>
           LET tcs == frame[r].tcs
               n == Len(tcs)
               e == events[r]
           IN /\ Len(e) >= n
              /\ \A i \in 1..n :
                   LET ev == e[Len(e) - n + i]
                       res == frame[r].results[i]
                   IN /\ ev.type = "tool_result"
                      /\ ev.toolName = tcs[i].function.name
                      /\ ev.toolResult = IF res.success THEN res.result ELSE res.error
C8_Witness ==
  \E r \in runs :
    /\ pc[r] = "handled" /\ mode[r] = "executeStream"
    /\ completed[r] = <<2, 1>>
    /\ frame[r].results[1] /= frame[r].results[2]
    /\ frame[r].tcs[1].function.name /= frame[r].tcs[2].function.name

C9_FailureAsMessage(tc, res, m) ==
  /\ m.role = "tool" /\ m.tool_call_id = tc.id
  /\ ~res.success => (m.content = <<"error: ">> \o res.error /\ res.error /= <<>>)
  /\ res.success => m.content[1] = "json"
C9_Failing(tc) == ~JSONParses(tc.function.arguments) \/ tc.function.name \notin RegisteredTools

\* C9: a failed request of a batch is folded back as an error-describing tool
\* message keyed by its call id, every sibling gets its own tool message, and
\* the step after the batch increments the round counter and issues the next
\* model call.
C9_FailuresAbsorbed ==
  /\ [](pc[1] = "handled" =>
          /\ FoldedOK(1, C9_FailureAsMessage)
          /\ \A i \in 1..Len(frame[1].tcs) : C9_Failing(frame[1].tcs[i]) => ~frame[1].results[i].success)
  /\ [][pc[1] = "handled" /\ pc'[1] /= "handled" =>
          /\ toolRounds' = toolRounds + 1
          /\ Len(callLog'[1]) = Len(callLog[1]) + 1
          /\ pc'[1] \in {"chat", "stream", "final", "finalStream"}]_vars
C9_Witness ==
  LET h == History
  IN /\ pc[1] \in {"chat", "stream"}
     /\ toolRounds = 1
     /\ Len(h) = 5
     /\ h[4].content = <<"error: ", "invalid-arguments">>
     /\ h[5].content[1] = "json"

\* C10: two runs in flight on one instance do not share run state: the
\* toolsUsed list a run has returned names exactly the tool calls that run
\* dispatched, as it would had the run executed alone.
C10_RunsIsolated ==
  \A r \in runs :
    result[r].returned => Len(toolsHeap[result[r].toolsUsed]) = requested[r]

\* The events of the latest model call of a run: those delivered since the
\* call was issued.
LastCallTools(r) == callLog[r][Len(callLog[r])]
RoundStart(r) == marks[r][Len(marks[r])]
RoundEvents(r) == SubSeq(events[r], RoundStart(r) + 1, Len(events[r]))

\* C11: when a streaming run has returned from a tool-eligible round (the
\* terminal chunk came with no tool decision to act on), the events of that
\* round are one content event per non-empty fragment the model delivered in
\* the round, in arrival order, followed by one done event and nothing else,
\* and the returned content is the concatenation of those fragments.
C11_PlainRoundEvents ==
  \A r \in runs :
    (mode[r] = "executeStream" /\ result[r].returned /\ LastCallTools(r)) =>
      LET e == RoundEvents(r)
          n == Len(heard[r])
      IN /\ Len(e) = n + 1
         /\ \A j \in 1..n : e[j] = ContentEvent(<<heard[r][j]>>)
         /\ e[n + 1] = DoneEvent
         /\ result[r].content = heard[r]
C11_Witness ==
  \E r \in runs :
    /\ mode[r] = "executeStream" /\ result[r].returned /\ LastCallTools(r)
    /\ heard[r] = <<"a", "b">>
    /\ Len(events[r]) = 3

\* The events of the k-th model call of a run, and those among events e of
\* the given types.
EventsOfRound(r, k) ==
  SubSeq(events[r], marks[r][k] + 1,
         IF k < Len(marks[r]) THEN marks[r][k + 1] ELSE Len(events[r]))
OfTypes(e, types) == SelectSeq(e, LAMBDA ev : ev.type \in types)
ToolNames(e) == [i \in 1..Len(e) |-> e[i].toolName]

\* C12: in a streaming run, within a round no tool_start event follows a
\* tool_result event; when the next round has begun, the round holds one
\* tool_result per tool_start, for the same tools in the same order (so none
\* is left for a later round); every done event comes after every tool_start
\* and tool_result event. In a returned run of two rounds whose first round
\* requested one tool and whose second round answered in text, the events
\* from the dispatch on are tool_start, tool_result, content events, done,
\* and the returned toolsUsed is that one tool name.
C12_EventOrder ==
  \A r \in runs :
    mode[r] = "executeStream" =>
      /\ \A k \in 1..Len(marks[r]) :
           LET e == EventsOfRound(r, k)
           IN /\ \A i, j \in 1..Len(e) :
                   (e[i].type = "tool_result" /\ e[j].type = "tool_start") => j < i
              /\ k < Len(marks[r]) =>
                   ToolNames(OfTypes(e, {"tool_result"})) = ToolNames(OfTypes(e, {"tool_start"}))
      /\ \A i, j \in 1..Len(events[r]) :
           (events[r][i].type = "done" /\ events[r][j].type \in {"tool_start", "tool_result"}) => j < i
      /\ (result[r].returned /\ Len(marks[r]) = 2 /\ requested[r] = 1 /\ LastCallTools(r)) =>
           LET e1 == OfTypes(EventsOfRound(r, 1), {"tool_start", "tool_result"})
               e2 == EventsOfRound(r, 2)
           IN /\ [i \in 1..Len(e1) |-> e1[i].type] = <<"tool_start", "tool_result">>
              /\ e1[1].toolName = e1[2].toolName
              /\ Len(e2) >= 1 /\ e2[Len(e2)].type = "done"
              /\ \A i \in 1..(Len(e2) - 1) : e2[i].type = "content"
              /\ toolsHeap[result[r].toolsUsed] = <<e1[1].toolName>>
C12_Witness ==
  \E r \in runs :
    /\ mode[r] = "executeStream" /\ result[r].returned
    /\ Len(marks[r]) = 2 /\ requested[r] = 1
    /\ [i \in 1..Len(events[r]) |-> events[r][i].type] = <<"tool_start", "tool_result", "content", "done">>
    /\ toolsHeap[result[r].toolsUsed] = <<"search_messages">>

\* C13: a streaming run that has returned delivered exactly one done event,
\* and that event is the last one delivered.
C13_ExactlyOneDone ==
  \A r \in runs :
    (mode[r] = "executeStream" /\ result[r].returned) =>
      LET e == events[r]
      IN /\ Len(OfTypes(e, {"done"})) = 1
         /\ e[Len(e)].type = "done"

\* C14: a run whose model call failed has rejected without returning a
\* result; the failing step issues no model call (no retry) and dispatches
\* nothing, and from then on the run issues no model call, dispatches no
\* tool call, delivers no event and never returns.
C14_FailureEndsRun ==
  /\ [](\A r \in runs : result[r].rejected => (~result[r].returned /\ pc[r] = "failed"))
  /\ [][\A r \in runs :
          (result[r].rejected \/ result'[r].rejected) =>
            /\ callLog'[r] = callLog[r]
            /\ requested'[r] = requested[r]
            /\ events'[r] = events[r]
            /\ result'[r].rejected /\ ~result'[r].returned]_vars
C14_Witness ==
  \E r \in runs :
    /\ result[r].rejected /\ pc[r] = "failed"
    /\ Len(callLog[r]) = 2 /\ requested[r] >= 1

\* The Gregorian calendar, counted in days from 1970-01-01.
GregorianLeap(y) == IF y % 100 = 0 THEN y % 400 = 0 ELSE y % 4 = 0
DaysInMonth(y, m) ==
  IF m = 2 THEN (IF GregorianLeap(y) THEN 29 ELSE 28)
  ELSE IF m \in {4, 6, 9, 11} THEN 30 ELSE 31
DaysToYear(y) ==
  IF y >= 1970
    THEN 365 * (y - 1970) + Cardinality({k \in 1970..(y - 1) : GregorianLeap(k)})
    ELSE 0 - (365 * (1970 - y) + Cardinality({k \in y..1969 : GregorianLeap(k)}))
RECURSIVE DaysToMonth(_, _)
DaysToMonth(y, m) == IF m = 1 THEN 0 ELSE DaysToMonth(y, m - 1) + DaysInMonth(y, m - 1)
CivilTs(y, m, d, hours, minutes, seconds) ==
  Ts(DaysToYear(y) + DaysToMonth(y, m) + d - 1, (hours * 60 + minutes) * 60 + seconds)
Window(from, to) == SomeTimeFilter([startTs |-> from, endTs |-> to])

\* The latest query came from search_messages or get_recent_messages.
WindowQuery == lastQuery.method \in {"searchMessages", "getRecentMessages"}

\* C15: a search_messages or get_recent_messages call that carries a year and
\* no month queries the data store with the window from January 1 00:00:00
\* to December 31 23:59:59 of that year.
C15_YearWindow ==
  (WindowQuery /\ lastQuery.params.year.defined /\ ~lastQuery.params.month.defined) =>
    LET y == lastQuery.params.year.val
    IN lastQuery.timeFilter = Window(CivilTs(y, 1, 1, 0, 0, 0), CivilTs(y, 12, 31, 23, 59, 59))

\* C16: a search_messages or get_recent_messages call that carries year y and
\* month m in 1..12 queries the data store with the window from day 1
\* 00:00:00 of month m of year y to 23:59:59 of the last day of that month
\* by the Gregorian calendar.
C16_MonthWindow ==
  (WindowQuery /\ lastQuery.params.year.defined /\ lastQuery.params.month.defined
     /\ lastQuery.params.month.val \in 1..12) =>
    LET y == lastQuery.params.year.val
        m == lastQuery.params.month.val
    IN lastQuery.timeFilter =
         Window(CivilTs(y, m, 1, 0, 0, 0), CivilTs(y, m, DaysInMonth(y, m), 23, 59, 59))

\* C17: a search_messages or get_recent_messages call that carries no year,
\* with or without a month, queries the data store with the time filter of
\* the context: that filter when the context has one, none when it has none.
C17_NoYearFallsBack ==
  (WindowQuery /\ ~lastQuery.params.year.defined) =>
    /\ lastQuery.timeFilter = context.timeFilter
    /\ ~context.timeFilter.defined => ~lastQuery.timeFilter.defined
C17_Witness ==
  /\ WindowQuery /\ ~lastQuery.params.year.defined
  /\ lastQuery.params.month = SomeNumber(2)
  /\ context.timeFilter.defined
  /\ lastQuery.timeFilter = context.timeFilter

\* C18: no tool call changes the context, and whatever the call before it
\* carried, a call that reads no year queries the data store with the time
\* filter the context had before the call.
C18_ContextNotModified ==
  [][/\ context' = context
     /\ (lastQuery'.method \notin {"searchMessages", "getRecentMessages"}
          \/ ~Truthy(lastQuery'.params.year)) => lastQuery'.timeFilter = context.timeFilter]_vars
C18_Witness ==
  /\ WindowQuery /\ Truthy(lastQuery.params.year)
  /\ context.timeFilter.defined
  /\ lastQuery.timeFilter /= context.timeFilter

\* C19: once the caller has abandoned a streaming run, the run issues no
\* further model call and dispatches no further tool batch (the model takes
\* a chunk and the fold of a batch as single steps, so every state lies at a
\* safe boundary; a batch in flight may still complete).
C19_StopsAfterAbandon ==
  [][\A r \in runs :
       abandoned[r] => (Len(callLog'[r]) = Len(callLog[r]) /\ requested'[r] = requested[r])]_vars

\* C20: a call made on an instance after the earlier calls have settled
\* starts from the history [system prompt, its user message], the empty
\* toolsUsed list and round counter 0; the result it returns counts its own
\* tool calls and rounds only; and no step changes a result already
\* returned or the toolsUsed list that result holds.
C20_FreshSession ==
  /\ [](\A r \in runs :
          /\ pc[r] = "getTools" =>
               /\ \E m \in UserMessages(r) : History = <<SystemMessage, UserMessage(<<m>>)>>
               /\ Used = <<>>
               /\ toolRounds = 0
          /\ result[r].returned =>
               /\ Len(toolsHeap[result[r].toolsUsed]) = requested[r]
               /\ result[r].toolRounds < Len(callLog[r]))
  /\ [][\A r \in runs :
          result[r].returned =>
            /\ result'[r] = result[r]
            /\ toolsHeap'[result[r].toolsUsed] = toolsHeap[result[r].toolsUsed]]_vars
C20_Witness ==
  /\ result[1].returned /\ result[2].returned
  /\ toolsHeap[result[1].toolsUsed] = <<"search_messages">>
  /\ result[1].toolRounds = 1
  /\ toolsHeap[result[2].toolsUsed] = <<>>
  /\ result[2].toolRounds = 0

\* A run awaits the model in these positions, and a tool batch in "tools".
ModelCallPcs == {"chat", "final", "stream", "finalStream"}
\* Every assistant message of h is followed by the tool messages of its tool
\* calls, one per call, in request order.
Answered(h) ==
  \A k \in 1..Len(h) :
    h[k].role = "assistant" =>
      LET n == Len(h[k].tool_calls)
      IN /\ k + n <= Len(h)
         /\ \A i \in 1..n : h[k + i].role = "tool" /\ h[k + i].tool_call_id = h[k].tool_calls[i].id

\* C21: a run has at most one model call or one tool batch in flight: while
\* it awaits the model no tool request of it is pending and the history the
\* model was sent answers every tool call of every earlier round; while it
\* awaits a batch the history ends with the assistant message of that batch
\* and every earlier round is answered; and a model call is issued only by
\* a step that leaves the history with every round answered.
C21_OneInFlight ==
  /\ [](\A r \in runs :
          /\ pc[r] \in ModelCallPcs =>
               /\ completed[r] = <<>>
               /\ \A i \in 1..Len(frame[r].results) : frame[r].results[i].defined
               /\ Answered(History)
          /\ pc[r] = "tools" =>
               /\ History[Len(History)] = AssistantMessage(frame[r].tcs)
               /\ Answered(SubSeq(History, 1, Len(History) - 1)))
  /\ [][\A r \in runs :
          Len(callLog'[r]) > Len(callLog[r]) =>
            /\ pc[r] \in {"getTools", "handled", "stream"}
            /\ pc'[r] \in ModelCallPcs
            /\ Answered(msgHeap'[messages'])]_vars
C21_Witness ==
  /\ pc[1] \in {"chat", "stream"}
  /\ Len(callLog[1]) = 2
  /\ CountRole(History, "tool") = 2

\* C22: a streaming run returns from a tool-eligible round only when that
\* round retained no tool calls: a round whose chunks carried tool calls is
\* dispatched once its terminal marker arrives, whatever finish reason the
\* marker carries.
C22_RetainedDecisionDispatched ==
  \A r \in runs :
    (mode[r] = "executeStream" /\ result[r].returned /\ LastCallTools(r))
      => ~HasToolCalls(frame[r].toolCalls)

\* What the latest model call of a run has decided so far.
LastDecision(r) == decisions[r][Len(decisions[r])]

\* C23: in a streaming run a tool batch is in flight, and tool_start events
\* have been emitted in the current round, only if the stream of that round
\* has delivered a chunk with the terminal marker.
C23_ActsAfterTerminalMarker ==
  \A r \in runs :
    (mode[r] = "executeStream" /\ decisions[r] /= <<>> /\ LastDecision(r).finishReason = "pending")
      => /\ pc[r] \notin {"tools", "handled"}
         /\ OfTypes(RoundEvents(r), {"tool_start"}) = <<>>

\* The run has issued its final model call, the one without tools.
ForcedFinish(r) == callLog[r] /= <<>> /\ ~LastCallTools(r)
ForcedMessages(h) == SelectSeq(h, LAMBDA m : m = UserMessage(ForcedFinishText))

\* C24: before the forced finish the history holds no instruction message;
\* once the final model call is issued it holds exactly one, as its last
\* message, that call is the only one made without tools and the round
\* counter stands at maxToolRounds; the run returns the text of that call
\* whatever the call signals; and from the final call on no step appends a
\* message, dispatches a tool, records a tool as used, counts a round,
\* issues a model call or emits a tool event.
C24_ForcedFinish ==
  /\ [](\A r \in runs :
          /\ ~ForcedFinish(r) => (pc[r] /= "idle" => ForcedMessages(History) = <<>>)
          /\ ForcedFinish(r) =>
               /\ Len(ForcedMessages(History)) = 1
               /\ History[Len(History)] = UserMessage(ForcedFinishText)
               /\ Len(SelectSeq(callLog[r], LAMBDA advertised : ~advertised)) = 1
               /\ toolRounds = config.maxToolRounds
               /\ pc[r] \in {"final", "finalStream", "done", "failed"}
               /\ result[r].returned =>
                    /\ result[r].content = heard[r]
                    /\ result[r].toolRounds = config.maxToolRounds)
  /\ [][\A r \in runs :
          ForcedFinish(r) =>
            /\ msgHeap'[messages'] = History
            /\ toolsHeap'[toolsUsed'] = Used
            /\ toolRounds' = toolRounds
            /\ requested'[r] = requested[r]
            /\ callLog'[r] = callLog[r]
            /\ OfTypes(events'[r], {"tool_start", "tool_result"})
                 = OfTypes(events[r], {"tool_start", "tool_result"})]_vars
\* A run configured with no tool round whose only model call, the final
\* one, carried tool calls: it has returned and dispatched nothing.
C24_Witness ==
  /\ config.maxToolRounds = 0
  /\ result[1].returned
  /\ first[1] = "tools"
  /\ requested[1] = 0
  /\ History = <<SystemMessage, UserMessage(<<"q">>), UserMessage(ForcedFinishText)>>

\* C25: the step in which a run returns (the model answered without a tool
\* request in a round, or answered the final call) leaves the history, the
\* toolsUsed list and the round counter as they were: the answer is handed
\* to the caller with those values and is not appended to the history.
C25_CompletionLeavesState ==
  [][\A r \in runs :
       (~result[r].returned /\ result'[r].returned) =>
         /\ msgHeap'[messages'] = History
         /\ toolsHeap'[toolsUsed'] = Used
         /\ toolRounds' = toolRounds
         /\ result'[r].toolRounds = toolRounds
         /\ toolsHeap'[result'[r].toolsUsed] = Used
         /\ result'[r].content = heard'[r]]_vars
\* Returned from a tool-eligible round that followed one dispatched round.
C25_Witness ==
  /\ result[1].returned
  /\ LastCallTools(1)
  /\ result[1].toolRounds = 1
  /\ result[1].content /= <<>>
  /\ Len(History) = 4
  /\ History[4].role = "tool"

ToolMessages(h) == SelectSeq(h, LAMBDA m : m.role = "tool")

\* C26: in a streaming run every request of a dispatched batch completes
\* once (no index twice, every index once the batch is over), one tool_start
\* event has been emitted per dispatched request, and whenever no batch is in
\* flight there is one tool_result event per tool_start event, for the same
\* tools in the same order as toolsUsed, and the k-th tool message of the
\* history renders the outcome the k-th tool_result event carries; while a
\* batch is in flight only its own results are outstanding.
C26_OncePerRequest ==
  \A r \in runs :
    mode[r] = "executeStream" =>
      LET starts == OfTypes(events[r], {"tool_start"})
          ends == OfTypes(events[r], {"tool_result"})
          tools == ToolMessages(History)
          n == Len(frame[r].tcs)
      IN /\ \A i, j \in 1..Len(completed[r]) :
              /\ completed[r][i] \in 1..n
              /\ i /= j => completed[r][i] /= completed[r][j]
         /\ pc[r] = "handled" => Len(completed[r]) = n
         /\ Len(starts) = requested[r]
         /\ pc[r] = "tools" => (Len(ends) = requested[r] - n /\ Len(tools) = Len(ends))
         /\ pc[r] /= "tools" =>
              /\ ToolNames(ends) = ToolNames(starts)
              /\ Used = ToolNames(starts)
              /\ Len(tools) = Len(ends)
              /\ \A k \in 1..Len(tools) :
                   tools[k].content \in {JSONStringify(ends[k].toolResult), ErrorText(ends[k].toolResult)}
\* A streaming run has returned after a batch of two requests, one of them
\* with a payload that cannot be parsed.
C26_Witness ==
  /\ mode[1] = "executeStream"
  /\ result[1].returned
  /\ requested[1] = 2
  /\ Len(frame[1].tcs) = 2
  /\ \E k \in 1..Len(events[1]) :
       /\ events[1][k].type = "tool_start"
       /\ events[1][k].toolName = "get_member_stats"
       /\ ~events[1][k].toolParams.defined

\* C27: whichever of the four tools is called, the time filter it hands to
\* the data store is the one search_messages resolves from the same year,
\* month and context time filter.
C27_SamePolicyEveryTool ==
  lastQuery.method /= "none" =>
    lastQuery.timeFilter = EffectiveTimeFilter(lastQuery.params, context.timeFilter)

\* C30: the limit search_messages hands to the data store is a positive
\* number no greater than 5000, and 200 when the call carries no limit.
C30_SearchLimit ==
  lastQuery.method = "searchMessages" =>
    /\ lastQuery.limit \in 1..MaxSearchLimit
    /\ ~lastQuery.params.limit.defined => lastQuery.limit = DefaultSearchLimit

\* The tool calls the messages of h carry, in order.
RECURSIVE RequestedCalls(_)
RequestedCalls(h) == IF h = <<>> THEN <<>> ELSE h[1].tool_calls \o RequestedCalls(Tail(h))

\* C29: whenever a run awaits the model or has returned (no batch in
\* flight), the round counter equals the number of assistant messages in the
\* history, every assistant message has empty text, the latest one carries
\* the tool calls of the latest batch, toolsUsed names the tool calls of the
\* assistant messages in order, and there is one tool message per toolsUsed
\* entry, in the same order (the k-th answers the k-th call); a returned
\* result reports that round count.
C29_CountersMatchHistory ==
  \A r \in runs :
    pc[r] \in ModelCallPcs \cup {"done"} =>
      LET calls == RequestedCalls(History)
          tools == ToolMessages(History)
          assistants == SelectSeq(History, LAMBDA m : m.role = "assistant")
      IN /\ toolRounds = Len(assistants)
         /\ \A k \in 1..Len(assistants) : assistants[k].content = <<>>
         /\ assistants /= <<>> => assistants[Len(assistants)].tool_calls = frame[r].tcs
         /\ Used = [k \in 1..Len(calls) |-> calls[k].function.name]
         /\ Len(tools) = Len(Used)
         /\ \A k \in 1..Len(tools) : tools[k].tool_call_id = calls[k].id
         /\ result[r].returned => result[r].toolRounds = Len(assistants)
\* A buffered run has returned after two rounds, the first of which carried
\* an empty list of tool calls.
C29_Witness ==
  /\ mode[1] = "execute"
  /\ result[1].returned
  /\ result[1].toolRounds = 2
  /\ History[3] = AssistantMessage(<<>>)
  /\ Len(Used) = 2

\* Tool calls, decisions and messages with the call ids made relative to the
\* run they belong to (the model client numbers the calls of each run).
CallShapes(tcs) == [i \in 1..Len(tcs) |-> tcs[i].function]
DecisionShapes(ds) ==
  [k \in 1..Len(ds) |-> [defined |-> ds[k].tool_calls.defined,
                          calls |-> CallShapes(ds[k].tool_calls.val),
                          finishReason |-> ds[k].finishReason]]
MessageShapes(h) ==
  [k \in 1..Len(h) |-> [role |-> h[k].role, content |-> h[k].content,
                         calls |-> CallShapes(h[k].tool_calls),
                         tool_call_id |-> h[k].tool_call_id % 100]]
\* The buffered run 1 and the streaming run 2 were given the same decisions
\* by the model, round by round, the same answer text and the same tool
\* outcomes.
SameDecisions ==
  /\ mode[1] = "execute" /\ mode[2] = "executeStream"
  /\ DecisionShapes(decisions[1]) = DecisionShapes(decisions[2])
  /\ heard[1] = heard[2]
  /\ frame[1].results = frame[2].results
\* The history of a returned run after its user message.
HistoryOf(r) == LET h == msgHeap[r + 1] IN SubSeq(h, 3, Len(h))

\* C28: a buffered run and a streaming run that were given the same
\* decisions by the model return the same content, toolsUsed and toolRounds
\* and leave the same history, also when a decision carries an empty list
\* of tool calls.
C28_SameStateMachine ==
  (result[1].returned /\ result[2].returned /\ SameDecisions) =>
    /\ result[1].content = result[2].content
    /\ toolsHeap[result[1].toolsUsed] = toolsHeap[result[2].toolsUsed]
    /\ result[1].toolRounds = result[2].toolRounds
    /\ MessageShapes(HistoryOf(1)) = MessageShapes(HistoryOf(2))
\* The same with the decisions that carry an empty list of tool calls left
\* out of the comparison.
NoEmptyList(ds) == \A k \in 1..Len(ds) : ds[k].tool_calls.defined => ds[k].tool_calls.val /= <<>>
AgreeWithoutEmptyList ==
  (result[1].returned /\ result[2].returned /\ SameDecisions /\ NoEmptyList(decisions[1])) =>
    /\ result[1].content = result[2].content
    /\ toolsHeap[result[1].toolsUsed] = toolsHeap[result[2].toolsUsed]
    /\ result[1].toolRounds = result[2].toolRounds
    /\ MessageShapes(HistoryOf(1)) = MessageShapes(HistoryOf(2))

====
